---- MODULE Spec2Model ----
(***************************************************************************)
(* A model of download_amazon_reviews.py: the batch orchestrator           *)
(* download_all_amazon_reviews, the dataset processor process_dataset and  *)
(* the archiver compress_folder, run against a filesystem that is a tree   *)
(* of paths.  Every call of the external world (load_dataset, mkdir,       *)
(* save_to_disk, tarfile, shutil.rmtree) either returns or raises.         *)
(***************************************************************************)
EXTENDS Integers, Sequences, FiniteSets, TLC

VARIABLES
  fs,          \* the filesystem: existing absolute path -> node
  cwd,         \* the process's working directory (relative paths resolve against it)
  pc,          \* the line the program is at
  mode,        \* which entry point the current call came through
  args,        \* the arguments of the current (or last) call
  idx,         \* position of the for loop in categories
  dtype,       \* dataset_type of the process_dataset call in progress
  successful,  \* the list "successful"
  failed,      \* the list "failed"
  result,      \* how the last top-level call ended
  ncalls,      \* number of top-level calls made so far
  log,         \* history of the current call (what was called, fetched, purged)
  incomplete   \* history across calls: the folders whose processing raised
               \* after the folder had been created

vars == <<fs, cwd, pc, mode, args, idx, dtype, successful, failed, result, ncalls, log, incomplete>>

(***************************************************************************)
(* Bounds                                                                  *)
(***************************************************************************)
MaxRuns == 2
MaxCats == 2

(***************************************************************************)
(* Paths.  A path is a sequence of names; a name is a stem and a suffix,   *)
(* so that Path.with_suffix is the replacement of the last name's suffix.  *)
(***************************************************************************)
N(s) == [stem |-> <<s>>, suffix |-> ""]

NoName == [stem |-> <<>>, suffix |-> ""]

IsPrefix(p, q) == Len(p) <= Len(q) /\ SubSeq(q, 1, Len(p)) = p

\* Path.parents: the proper ancestors of p
parents(p) == {SubSeq(p, 1, k) : k \in 0..(Len(p) - 1)}

\* Path.with_suffix(ext)
with_suffix(p, ext) == [p EXCEPT ![Len(p)] = [stem |-> p[Len(p)].stem, suffix |-> ext]]

\* Path(x).resolve(): a relative path is taken under the working directory
resolve(p) == IF p.absolute THEN p.parts ELSE cwd \o p.parts

Abs(parts) == [absolute |-> TRUE, parts |-> parts]
Rel(parts) == [absolute |-> FALSE, parts |-> parts]

ToSet(s) == {s[i] : i \in DOMAIN s}

(***************************************************************************)
(* Program constants                                                       *)
(***************************************************************************)
VALID_CATEGORIES ==
  << "All_Beauty", "Amazon_Fashion", "Appliances", "Arts_Crafts_and_Sewing", "Automotive",
     "Baby_Products", "Beauty_and_Personal_Care", "Books", "CDs_and_Vinyl",
     "Cell_Phones_and_Accessories", "Clothing_Shoes_and_Jewelry", "Digital_Music", "Electronics",
     "Gift_Cards", "Grocery_and_Gourmet_Food", "Handmade_Products", "Health_and_Household",
     "Health_and_Personal_Care", "Home_and_Kitchen", "Industrial_and_Scientific", "Kindle_Store",
     "Magazine_Subscriptions", "Movies_and_TV", "Musical_Instruments", "Office_Products",
     "Patio_Lawn_and_Garden", "Pet_Supplies", "Software", "Sports_and_Outdoors",
     "Subscription_Boxes", "Tools_and_Home_Improvement", "Toys_and_Games", "Video_Games", "Unknown" >>

\* config.HF_DATASETS_CACHE = "E:/hf_cache": on a POSIX system a relative path
\* of two names; with the working directory at the root it is the absolute one.
HF_DATASETS_CACHE == Rel(<<N("E:"), N("hf_cache")>>)

ArchiveExts == <<".tar.gz", ".tar.bz2", ".tar.xz">>

DatasetTypes == {"review", "meta"}

(***************************************************************************)
(* Filesystem                                                              *)
(***************************************************************************)
Dir(files) == [kind |-> "dir", files |-> files, root |-> NoName, complete |-> TRUE]
Tar(root, files, complete) == [kind |-> "tar", files |-> files, root |-> root, complete |-> complete]

NoNode == [kind |-> "none", files |-> {}, root |-> NoName, complete |-> FALSE]

exists(f, p) == p \in DOMAIN f

\* mkdir(parents=True, exist_ok=True): p and its missing ancestors become directories
mkdir(f, p) ==
  [q \in DOMAIN f \cup parents(p) \cup {p} |-> IF q \in DOMAIN f THEN f[q] ELSE Dir({})]

\* write node n at p (its ancestors exist afterwards)
put(f, p, n) == [q \in DOMAIN mkdir(f, p) |-> IF q = p THEN n ELSE mkdir(f, p)[q]]

\* shutil.rmtree(p): p and everything below it is gone
rmtree(f, p) == [q \in {r \in DOMAIN f : ~IsPrefix(p, r)} |-> f[q]]

\* the files save_to_disk writes into the folder (one stands for them)
DatasetFiles == {"data.arrow"}

(***************************************************************************)
(* Values passed around                                                    *)
(***************************************************************************)
NoError == [type |-> "none", what |-> "none", names |-> {}]
Error(type, what, names) == [type |-> type, what |-> what, names |-> names]

\* str(e)
Str(e) == <<e.what, e.names>>

NoStatus == [tag |-> "none", folder_name |-> NoName, compressed |-> FALSE, format |-> "", level |-> 0]
Status(tag, name, compressed, format, level) ==
  [tag |-> tag, folder_name |-> name, compressed |-> compressed, format |-> format, level |-> level]

NoResult == [kind |-> "none", exc |-> NoError, status |-> NoStatus, path |-> <<>>, ok |-> 0, total |-> 0]

NoArgs == [base_save_path |-> <<>>, categories |-> <<>>, compress |-> FALSE,
           compression_format |-> "gz", compression_level |-> 6]

\* calls: the process_dataset calls made, in order; fetches, compressions: the
\* pairs load_dataset and compress_folder were called for; raised: the pairs
\* whose processing raised, with the message; purges: the number of times the
\* finally block ran; terminal: the categories that ended, in order;
\* folderAtCall: the folder a direct call was made on, as it was then
EmptyLog == [calls |-> <<>>, fetches |-> {}, compressions |-> {}, raised |-> {}, purges |-> 0,
             terminal |-> <<>>, ioFailed |-> FALSE, priorOutput |-> FALSE, validated |-> FALSE,
             folderAtCall |-> NoNode]

(***************************************************************************)
(* Names derived from the arguments (process_dataset, lines 79-81)         *)
(***************************************************************************)
\* f"raw_{dataset_type}_{category}"
folder_name(dataset_type, category) == [stem |-> <<"raw", dataset_type, category>>, suffix |-> ""]

dataset_path(base, dataset_type, category) == Append(base, folder_name(dataset_type, category))

compressed_paths(base, dataset_type, category) ==
  {with_suffix(dataset_path(base, dataset_type, category), ArchiveExts[i]) : i \in DOMAIN ArchiveExts}

category == args.categories[idx]

cache_path == resolve(HF_DATASETS_CACHE)


\* the branches for gz and xz exchanged
archive_ext_swapped(compression_format) ==
  IF compression_format = "xz" THEN ".tar.gz"
  ELSE IF compression_format = "bz2" THEN ".tar.bz2" ELSE ".tar.xz"

archive_ext(compression_format) ==
  IF compression_format = "gz" THEN ".tar.gz"
  ELSE IF compression_format = "bz2" THEN ".tar.bz2" ELSE ".tar.xz"

\* the folder and the archive the call in progress works on
folder == dataset_path(args.base_save_path, dtype, category)

archive_path == with_suffix(folder, archive_ext(args.compression_format))

(***************************************************************************)
(* Initial state                                                           *)
(***************************************************************************)
WorkingDirs == { <<>>, <<N("data"), folder_name("review", "Books")>> }

\* what earlier use of the program may have left: nothing, or a dataset folder
\* of one pair and an archive of another (of a format that need not be the one
\* asked for now)
InitialOutputs(f) ==
  { f,
    put(put(f, dataset_path(<<N("data")>>, "review", "Books"), Dir(DatasetFiles)),
        with_suffix(dataset_path(<<N("data")>>, "meta", "Gift_Cards"), ".tar.bz2"),
        Tar(folder_name("meta", "Gift_Cards"), DatasetFiles, TRUE)) }

Init ==
  /\ cwd \in WorkingDirs
  /\ fs \in InitialOutputs(mkdir(<<>>, cwd))
  /\ pc = "idle"
  /\ mode = "none"
  /\ args = NoArgs
  /\ idx = 1
  /\ dtype = "review"
  /\ successful = <<>>
  /\ failed = <<>>
  /\ result = NoResult
  /\ ncalls = 0
  /\ log = EmptyLog
  /\ incomplete = {}

(***************************************************************************)
(* How control leaves a step                                               *)
(***************************************************************************)
\* go on to the next line of the same function
Continue(f, l, next) ==
  /\ fs' = f
  /\ log' = l
  /\ pc' = next
  /\ UNCHANGED <<cwd, mode, args, idx, dtype, successful, failed, result, ncalls, incomplete>>

\* a handler around each call instead of around the pair: "meta" is tried
\* after a failed "review"
except_handler_per_call(l, e) ==
  /\ failed' = Append(failed, <<category, Str(e)>>)
  /\ UNCHANGED <<successful, result>>
  /\ IF dtype = "review"
     THEN /\ dtype' = "meta"
          /\ pc' = "check"
          /\ log' = [l EXCEPT !.calls = Append(@, <<idx, "meta">>)]
     ELSE /\ dtype' = dtype
          /\ pc' = "finally"
          /\ log' = [l EXCEPT !.terminal = Append(@, <<idx, "FAILED">>)]

\* the handler tries the category again instead of recording it
except_handler_retry(l, e) ==
  /\ dtype' = "review"
  /\ pc' = "check"
  /\ log' = [l EXCEPT !.calls = Append(@, <<idx, "review">>)]
  /\ UNCHANGED <<successful, failed, result>>

\* lines 127-130: the handler of a batch run records the category and goes on
except_handler(l, e) ==
  /\ failed' = Append(failed, <<category, Str(e)>>)
  /\ log' = [l EXCEPT !.terminal = Append(@, <<idx, "FAILED">>)]
  /\ pc' = "finally"
  /\ UNCHANGED <<successful, result, dtype>>

\* an exception leaves process_dataset or compress_folder: a batch run catches
\* it at the category boundary, a direct call hands it to its caller
Throw(f, l, e) ==
  LET l2 == [l EXCEPT !.ioFailed = TRUE, !.raised = @ \cup {<<idx, dtype, Str(e)>>}] IN
  /\ fs' = f
  /\ incomplete' = IF pc \in {"compress", "add", "rmtree"} \/ e.what = "save_to_disk"
                   THEN incomplete \cup {folder} ELSE incomplete
  /\ IF mode = "run"
     THEN except_handler(l2, e)
     ELSE /\ pc' = "idle"
          /\ result' = [NoResult EXCEPT !.kind = "raised", !.exc = e]
          /\ log' = l2
          /\ UNCHANGED <<successful, failed, dtype>>
  /\ UNCHANGED <<cwd, mode, args, idx, ncalls>>

\* lines 121-126: what the batch run does with a returned status
after_process(l) ==
  IF dtype = "review"
  THEN /\ dtype' = "meta"
       /\ pc' = "check"
       /\ log' = [l EXCEPT !.calls = Append(@, <<idx, "meta">>)]
       /\ UNCHANGED <<successful, failed>>
  ELSE /\ successful' = Append(successful, category)
       /\ log' = [l EXCEPT !.terminal = Append(@, <<idx, "SUCCESS">>)]
       /\ pc' = "finally"
       /\ UNCHANGED <<dtype, failed>>

\* process_dataset returns a status (lines 83, 89, 90)
ProcessReturns(f, l, status) ==
  /\ fs' = f
  /\ IF mode = "run"
     THEN /\ after_process(l)
          /\ UNCHANGED result
     ELSE /\ pc' = "idle"
          /\ result' = [NoResult EXCEPT !.kind = "returned", !.status = status]
          /\ log' = l
          /\ UNCHANGED <<successful, failed, dtype>>
  /\ UNCHANGED <<cwd, mode, args, idx, ncalls, incomplete>>

\* compress_folder returns archive_path (line 75); process_dataset then
\* returns its "downloaded and compressed" status (line 89)
CompressReturns(f, l) ==
  IF mode = "compress"
  THEN /\ fs' = f
       /\ log' = l
       /\ pc' = "idle"
       /\ result' = [NoResult EXCEPT !.kind = "returned", !.path = archive_path]
       /\ UNCHANGED <<cwd, mode, args, idx, dtype, successful, failed, ncalls, incomplete>>
  ELSE ProcessReturns(f, l, Status("DONE", folder_name(dtype, category), TRUE,
                                   args.compression_format, args.compression_level))

(***************************************************************************)
(* Inputs                                                                  *)
(***************************************************************************)
CategoryNames == {"Books", "Gift_Cards", "NotACategory", "books"}

CategoryLists == UNION {[1..n -> CategoryNames] : n \in 0..MaxCats}

Levels == {0, 1, 9, 10}

Formats == {"gz", "bz2", "xz", "zip"}

\* one path apart from the cache, one above it, the cache itself, one below it
BasePaths ==
  { Abs(<<N("data")>>),
    Rel(<<N("E:")>>),
    Rel(<<N("E:"), N("hf_cache")>>),
    Rel(<<N("E:"), N("hf_cache"), N("out")>>) }

(***************************************************************************)
(* download_all_amazon_reviews, lines 92-111: validation                   *)
(***************************************************************************)
\* a base below the cache directory is let through
overlapping_no_descendant(base, cache) ==
  base = cache \/ base \in parents(cache)

\* line 109: base and cache are equal, or one is an ancestor of the other
overlapping(base, cache) ==
  base = cache \/ base \in parents(cache) \/ cache \in parents(base)

\* the categories are checked one by one and the first invalid one is reported
validate_first_invalid(base, categories, compression_format, compression_level) ==
  LET bad == {i \in DOMAIN categories : categories[i] \notin ToSet(VALID_CATEGORIES)} IN
  IF bad # {}
  THEN Error("ValueError", "Invalid categories",
             {categories[CHOOSE i \in bad : \A j \in bad : i <= j]})
  ELSE IF ~(1 <= compression_level /\ compression_level <= 9)
       THEN Error("ValueError", "Compression level must be between 1 and 9", {})
  ELSE IF compression_format \notin {"gz", "bz2", "xz"}
       THEN Error("ValueError", "Unsupported compression format", {})
  ELSE IF base = cache_path \/ base \in parents(cache_path) \/ cache_path \in parents(base)
       THEN Error("ValueError", "base_save_path and HF_DATASETS_CACHE must be separate", {})
  ELSE NoError

\* lines 99-110: the first check that fails decides the error
validate(base, categories, compression_format, compression_level) ==
  LET invalid == ToSet(categories) \ ToSet(VALID_CATEGORIES) IN
  IF invalid # {} THEN Error("ValueError", "Invalid categories", invalid)
  ELSE IF ~(1 <= compression_level /\ compression_level <= 9)
       THEN Error("ValueError", "Compression level must be between 1 and 9", {})
  ELSE IF compression_format \notin {"gz", "bz2", "xz"}
       THEN Error("ValueError", "Unsupported compression format", {})
  ELSE IF overlapping(base, cache_path)
       THEN Error("ValueError", "base_save_path and HF_DATASETS_CACHE must be separate", {})
  ELSE NoError

\* only the folder is looked for
already_exists_folder_only(f, base, dataset_type, cat) ==
  exists(f, dataset_path(base, dataset_type, cat))

\* process_dataset, line 82: the folder or one of the three archives exists
already_exists(f, base, dataset_type, cat) ==
  \/ exists(f, dataset_path(base, dataset_type, cat))
  \/ \E path \in compressed_paths(base, dataset_type, cat) : exists(f, path)

download_all_amazon_reviews(base_save_path, categories, compress, compression_format, compression_level) ==
  /\ pc = "idle"
  /\ LET base == resolve(base_save_path)
         e == validate(base, categories, compression_format, compression_level)
         l == [EmptyLog EXCEPT !.priorOutput = \E i \in DOMAIN categories : \E t \in DatasetTypes :
                                                  already_exists(fs, base, t, categories[i])]
     IN /\ args' = [base_save_path |-> base, categories |-> categories, compress |-> compress,
                    compression_format |-> compression_format,
                    compression_level |-> compression_level]
        /\ mode' = "run"
        /\ ncalls' = ncalls + 1
        /\ idx' = 1
        /\ dtype' = "review"
        /\ successful' = <<>>
        /\ failed' = <<>>
        /\ IF e # NoError
           THEN /\ pc' = "idle"
                /\ result' = [NoResult EXCEPT !.kind = "raised", !.exc = e]
                /\ log' = l
                /\ fs' = fs
           ELSE /\ pc' = "loop"                       \* lines 111-117
                /\ result' = NoResult
                /\ log' = [l EXCEPT !.validated = TRUE]
                /\ fs' = mkdir(fs, base)
  /\ UNCHANGED <<cwd, incomplete>>

\* one call on a filesystem that earlier use may have left output on
Call ==
  /\ pc = "idle"
  /\ ncalls = 0
  /\ \E b \in BasePaths, cs \in CategoryLists, c \in BOOLEAN, f \in Formats, v \in Levels :
       download_all_amazon_reviews(b, cs, c, f, v)

(***************************************************************************)
(* download_all_amazon_reviews, lines 118-139: the loop                    *)
(***************************************************************************)
\* line 118 and the call of line 121, or the end of the loop
ForCategory ==
  /\ pc = "loop"
  /\ mode = "run"
  /\ IF idx <= Len(args.categories)
     THEN /\ dtype' = "review"
          /\ pc' = "check"
          /\ log' = [log EXCEPT !.calls = Append(@, <<idx, "review">>)]
     ELSE /\ pc' = "summary"
          /\ UNCHANGED <<dtype, log>>
  /\ UNCHANGED <<fs, cwd, mode, args, idx, successful, failed, result, ncalls, incomplete>>

\* shutil.rmtree(path, ignore_errors=True): the tree is removed, or an error
\* is swallowed and the tree is left
rmtree_ignore_errors(f, p) == {rmtree(f, p), f}

\* lines 131-133: the finally block, then the next iteration
purge(f) == IF exists(f, cache_path) THEN rmtree_ignore_errors(f, cache_path) ELSE {f}

\* the purge sits in the try block's else clause: it is skipped after a failure
Finally_purge_on_success ==
  /\ pc = "finally"
  /\ IF log.terminal[Len(log.terminal)][2] = "SUCCESS"
     THEN /\ fs' \in purge(fs)
          /\ log' = [log EXCEPT !.purges = @ + 1]
     ELSE UNCHANGED <<fs, log>>
  /\ idx' = idx + 1
  /\ pc' = "loop"
  /\ UNCHANGED <<cwd, mode, args, dtype, successful, failed, result, ncalls, incomplete>>

Finally ==
  /\ pc = "finally"
  /\ fs' \in purge(fs)
  /\ log' = [log EXCEPT !.purges = @ + 1]
  /\ idx' = idx + 1
  /\ pc' = "loop"
  /\ UNCHANGED <<cwd, mode, args, dtype, successful, failed, result, ncalls, incomplete>>

\* lines 134-139
Summary ==
  /\ pc = "summary"
  /\ pc' = "idle"
  /\ result' = [NoResult EXCEPT !.kind = "returned", !.ok = Len(successful),
                                !.total = Len(args.categories)]
  /\ UNCHANGED <<fs, cwd, mode, args, idx, dtype, successful, failed, ncalls, log, incomplete>>

(***************************************************************************)
(* process_dataset, lines 77-90                                            *)
(***************************************************************************)
\* lines 82-83
ProcessSkip ==
  /\ pc = "check"
  /\ already_exists(fs, args.base_save_path, dtype, category)
  /\ ProcessReturns(fs, log, Status("SKIP", folder_name(dtype, category), FALSE, "", 0))

\* what load_dataset leaves in the cache directory
CacheFiles == {"downloads"}

\* line 84: load_dataset returns, or raises with or without having written
\* to the cache
Fetch ==
  /\ pc = "check"
  /\ ~already_exists(fs, args.base_save_path, dtype, category)
  /\ LET l == [log EXCEPT !.fetches = @ \cup {<<idx, dtype>>}]
         cached == put(fs, cache_path, Dir(CacheFiles))
     IN \/ Continue(cached, l, "save")
        \/ \E f \in {fs, cached} : Throw(f, l, Error("Exception", "load_dataset", {}))

\* the proper subsets of a folder's files: what an interrupted write leaves
Partial(files) == {s \in SUBSET files : s # files}

\* a failed save_to_disk removes the folder it began
Save_cleanup_on_failure ==
  /\ pc = "save"
  /\ \/ Throw(fs, log, Error("OSError", "mkdir", {}))
     \/ Throw(fs, log, Error("OSError", "save_to_disk", {}))
     \/ LET f == put(fs, folder, Dir(DatasetFiles)) IN
        IF args.compress
        THEN Continue(f, [log EXCEPT !.compressions = @ \cup {<<idx, dtype>>}], "compress")
        ELSE ProcessReturns(f, log, Status("DONE", folder_name(dtype, category), FALSE, "", 0))

\* lines 85-90: mkdir and save_to_disk, then compression or the plain status
Save ==
  /\ pc = "save"
  /\ \/ Throw(fs, log, Error("OSError", "mkdir", {}))
     \/ \E part \in Partial(DatasetFiles) :
          Throw(put(fs, folder, Dir(part)), log, Error("OSError", "save_to_disk", {}))
     \/ LET f == put(fs, folder, Dir(DatasetFiles)) IN
        IF args.compress
        THEN Continue(f, [log EXCEPT !.compressions = @ \cup {<<idx, dtype>>}], "compress")
        ELSE ProcessReturns(f, log, Status("DONE", folder_name(dtype, category), FALSE, "", 0))

(***************************************************************************)
(* compress_folder, lines 64-75                                            *)
(***************************************************************************)
\* Path.name and Path.parent
name(p) == p[Len(p)]
parent(p) == SubSeq(p, 1, Len(p) - 1)

\* an archive file just opened for writing: nothing in it yet
EmptyTar == Tar(NoName, {}, FALSE)

\* lines 66-71: the level check, then tarfile.open(archive_path, "w:<format>",
\* compresslevel = level for gz, None for the others).  tarfile hands
\* compresslevel on to the codec's opener:
\*   gz   gzopen takes it; the file is created;
\*   bz2  BZ2File compares 1 <= None and raises TypeError before creating a file;
\*   xz   xzopen creates the file through LZMAFile, then passes compresslevel to
\*        TarFile.__init__, which has no such parameter: TypeError, after which
\*        the file is closed and left behind;
\*   any other format is an unknown compression type.
\* Creating the file itself may fail with an OSError.
tar_open(f, compression_format) ==
  IF compression_format = "gz"
  THEN {[fs |-> put(f, archive_path, EmptyTar), exc |-> NoError]}
  ELSE IF compression_format = "bz2"
  THEN {[fs |-> f, exc |-> Error("TypeError", "compresslevel", {})]}
  ELSE IF compression_format = "xz"
  THEN {[fs |-> put(f, archive_path, EmptyTar), exc |-> Error("TypeError", "compresslevel", {})]}
  ELSE {[fs |-> f, exc |-> Error("CompressionError", "unknown compression type", {})]}

CompressOpen ==
  /\ pc = "compress"
  /\ IF ~(1 <= args.compression_level /\ args.compression_level <= 9)
     THEN Throw(fs, log, Error("ValueError", "Compression level must be between 1 and 9", {}))
     ELSE \/ Throw(fs, log, Error("OSError", "tarfile.open", {}))
          \/ /\ exists(fs, parent(archive_path))
             /\ \E o \in tar_open(fs, args.compression_format) :
                  IF o.exc = NoError THEN Continue(o.fs, log, "add") ELSE Throw(o.fs, log, o.exc)

\* the folder is removed in a finally clause: also when tar.add raised
CompressAdd_rmtree_in_finally ==
  /\ pc = "add"
  /\ IF ~exists(fs, folder)
     THEN Throw(fs, log, Error("FileNotFoundError", "tar.add", {}))
     ELSE \/ Continue(put(fs, archive_path, Tar(name(folder), fs[folder].files, TRUE)), log, "rmtree")
          \/ \E part \in SUBSET fs[folder].files :
               Throw(rmtree(put(fs, archive_path, Tar(name(folder), part, FALSE)), folder), log,
                     Error("OSError", "tar.add", {}))

\* line 72 and the end of the with block: the folder's files go into the
\* archive under arcname = folder.name and the archive is closed; a failure
\* leaves an unfinished archive behind
CompressAdd ==
  /\ pc = "add"
  /\ IF ~exists(fs, folder)
     THEN Throw(fs, log, Error("FileNotFoundError", "tar.add", {}))
     ELSE \/ Continue(put(fs, archive_path, Tar(name(folder), fs[folder].files, TRUE)), log, "rmtree")
          \/ \E part \in SUBSET fs[folder].files :
               Throw(put(fs, archive_path, Tar(name(folder), part, FALSE)), log,
                     Error("OSError", "tar.add", {}))

\* lines 73-75: shutil.rmtree(folder) and the return; a failing rmtree has
\* removed some of the files and raises
CompressRmtree ==
  /\ pc = "rmtree"
  /\ \/ CompressReturns(rmtree(fs, folder), log)
     \/ \E part \in SUBSET fs[folder].files :
          Throw(put(fs, folder, Dir(part)), log, Error("OSError", "rmtree", {}))

(***************************************************************************)
(* Direct calls of process_dataset and compress_folder                     *)
(***************************************************************************)
DirectBases == {Abs(<<N("data")>>)}

DirectCategories == {"Books"}

Direct(m, base, dataset_type, cat, compress, compression_format, compression_level, start) ==
  /\ pc = "idle"
  /\ args' = [base_save_path |-> resolve(base), categories |-> <<cat>>, compress |-> compress,
              compression_format |-> compression_format, compression_level |-> compression_level]
  /\ mode' = m
  /\ ncalls' = ncalls + 1
  /\ idx' = 1
  /\ dtype' = dataset_type
  /\ successful' = <<>>
  /\ failed' = <<>>
  /\ result' = NoResult
  /\ log' = [EmptyLog EXCEPT
               !.calls = IF m = "process" THEN <<<<1, dataset_type>>>> ELSE <<>>,
               !.compressions = IF m = "compress" THEN {<<1, dataset_type>>} ELSE {},
               !.folderAtCall = IF exists(fs, dataset_path(resolve(base), dataset_type, cat))
                                THEN fs[dataset_path(resolve(base), dataset_type, cat)]
                                ELSE NoNode]
  /\ pc' = start
  /\ UNCHANGED <<fs, cwd, incomplete>>

CallProcess ==
  /\ pc = "idle"
  /\ ncalls < MaxRuns
  /\ \E b \in DirectBases, t \in DatasetTypes, c \in DirectCategories,
        z \in BOOLEAN, f \in Formats, v \in Levels :
       Direct("process", b, t, c, z, f, v, "check")

CallCompress ==
  /\ pc = "idle"
  /\ ncalls < MaxRuns
  /\ \E b \in DirectBases, t \in DatasetTypes, c \in DirectCategories,
        f \in Formats, v \in Levels :
       Direct("compress", b, t, c, TRUE, f, v, "compress")

(***************************************************************************)
(* Successive runs on one base_save_path                                   *)
(***************************************************************************)
RerunBase == Abs(<<N("data")>>)

RerunLists == UNION {[1..n -> {"Books"}] : n \in 0..MaxCats}

RerunFormats == {"gz", "bz2", "xz"}

RerunLevels == {6}

Rerun ==
  /\ pc = "idle"
  /\ ncalls < MaxRuns
  /\ \E cs \in RerunLists, c \in BOOLEAN, f \in RerunFormats, v \in RerunLevels :
       download_all_amazon_reviews(RerunBase, cs, c, f, v)

(***************************************************************************)
(* Specifications                                                          *)
(***************************************************************************)
Step ==
  \/ ForCategory
  \/ ProcessSkip
  \/ Fetch
  \/ Save
  \/ CompressOpen
  \/ CompressAdd
  \/ CompressRmtree
  \/ Finally
  \/ Summary

Next == Call \/ Step

\* one run of the batch orchestrator
Spec == Init /\ [][Next]_vars

\* a started run keeps running: each external call returns or raises
FairSpec == Spec /\ WF_vars(Step)

NextRuns == Rerun \/ Step

\* up to MaxRuns runs, one after the other, on the same base_save_path
SpecRuns == Init /\ [][NextRuns]_vars

NextDirect ==
  \/ CallProcess
  \/ CallCompress
  \/ ProcessSkip
  \/ Fetch
  \/ Save
  \/ CompressOpen
  \/ CompressAdd
  \/ CompressRmtree

\* process_dataset and compress_folder called on their own
SpecDirect == Init /\ [][NextDirect]_vars

(***************************************************************************)
(* Properties                                                              *)
(***************************************************************************)
IsFailed(t) == t[2] = "FAILED"
IsSuccess(t) == t[2] = "SUCCESS"

\* the positions of the categories that ended FAILED, and SUCCESS, in order
FailedAt == SelectSeq(log.terminal, IsFailed)
SuccessAt == SelectSeq(log.terminal, IsSuccess)

Called(i, t) == \E k \in DOMAIN log.calls : log.calls[k] = <<i, t>>

InRun == mode = "run" /\ log.validated

AtSummary == InRun /\ (pc = "summary" \/ (pc = "idle" /\ result.kind = "returned"))

\* "successful" and "failed" hold exactly the categories that ended so, by position
ListsMatchOutcomes ==
  /\ Len(failed) = Len(FailedAt)
  /\ \A k \in DOMAIN failed : failed[k][1] = args.categories[FailedAt[k][1]]
  /\ Len(successful) = Len(SuccessAt)
  /\ \A k \in DOMAIN successful : successful[k] = args.categories[SuccessAt[k][1]]

\* C1: in a batch run, when process_dataset for "review" of the category at
\* position i raises, process_dataset for "meta" of that position is never
\* called, the category is in "failed" with the exception's message and did
\* not end successful, and at the summary every later position has been
\* processed.
C1_ReviewFailureIsolated ==
  InRun =>
    /\ ListsMatchOutcomes
    /\ \A r \in log.raised :
         r[2] = "review" =>
           /\ ~Called(r[1], "meta")
           /\ \E k \in DOMAIN failed :
                /\ FailedAt[k][1] = r[1]
                /\ failed[k] = <<args.categories[r[1]], r[3]>>
           /\ \A k \in DOMAIN SuccessAt : SuccessAt[k][1] # r[1]
           /\ AtSummary => \A j \in (r[1] + 1)..Len(args.categories) : Called(j, "review")

\* a run whose first category failed in "review" and whose second succeeded
C1_Witness ==
  /\ AtSummary
  /\ Len(args.categories) = 2
  /\ \E r \in log.raised : r[1] = 1 /\ r[2] = "review"
  /\ SuccessAt = << <<2, "SUCCESS">> >>
  /\ args.categories[1] # args.categories[2]

\* the paths of a pair's outputs, written out
OutputFolder(base, t, c) == Append(base, [stem |-> <<"raw", t, c>>, suffix |-> ""])
OutputArchive(base, t, c, ext) == Append(base, [stem |-> <<"raw", t, c>>, suffix |-> ext])

PairHasOutput(f, base, t, c) ==
  \/ OutputFolder(base, t, c) \in DOMAIN f
  \/ \E ext \in {".tar.gz", ".tar.bz2", ".tar.xz"} : OutputArchive(base, t, c, ext) \in DOMAIN f

\* C2: when process_dataset is entered for a pair whose folder, or one of whose
\* three archives, exists, it returns a "[SKIP]" status, load_dataset and
\* compress_folder are not called, and the filesystem is left as it was,
\* whatever compress is.
C2_SkipIsFrame ==
  [][ (pc = "check" /\ PairHasOutput(fs, args.base_save_path, dtype, args.categories[idx]))
        => /\ fs' = fs
           /\ log'.fetches = log.fetches
           /\ log'.compressions = log.compressions
           /\ (mode = "process" =>
                 pc' = "idle" /\ result'.kind = "returned" /\ result'.status.tag = "SKIP") ]_vars

\* a direct call with compress = True skipped on the strength of an archive alone
C2_Witness ==
  /\ mode = "process"
  /\ pc = "idle"
  /\ result.status.tag = "SKIP"
  /\ args.compress
  /\ OutputFolder(args.base_save_path, dtype, args.categories[1]) \notin DOMAIN fs
  /\ \E ext \in {".tar.gz", ".tar.bz2", ".tar.xz"} :
       /\ OutputArchive(args.base_save_path, dtype, args.categories[1], ext) \in DOMAIN fs
       /\ ext # archive_ext(args.compression_format)

\* the cache directory the run purges
CacheDir == cwd \o <<N("E:"), N("hf_cache")>>

InvalidEntries(a) == {a.categories[i] : i \in DOMAIN a.categories} \ ToSet(VALID_CATEGORIES)

BadArguments(a) ==
  \/ InvalidEntries(a) # {}
  \/ a.compression_level \notin 1..9
  \/ a.compression_format \notin {"gz", "bz2", "xz"}
  \/ IsPrefix(a.base_save_path, CacheDir)
  \/ IsPrefix(CacheDir, a.base_save_path)

\* C3: a call of download_all_amazon_reviews with an invalid category, a level
\* outside 1..9, an unsupported format, or a base_save_path that is the cache
\* directory, above it or below it, raises ValueError with the filesystem as
\* it was (base_save_path not created), no process_dataset call and no fetch;
\* for invalid categories the error names all of them.
C3_ValidationBeforeWork ==
  /\ [](mode = "run" /\ BadArguments(args) =>
          /\ pc = "idle"
          /\ result.kind = "raised"
          /\ result.exc.type = "ValueError"
          /\ log.calls = <<>>
          /\ log.fetches = {}
          /\ (InvalidEntries(args) # {} => result.exc.names = InvalidEntries(args)))
  /\ [][ (pc = "idle" /\ mode' = "run" /\ ncalls' = ncalls + 1 /\ BadArguments(args'))
           => fs' = fs ]_vars

\* two invalid categories and an invalid level: both categories are named
C3_Witness ==
  /\ mode = "run"
  /\ result.kind = "raised"
  /\ result.exc.names = {"NotACategory", "books"}
  /\ args.compression_level = 10
  /\ args.base_save_path \notin DOMAIN fs

\* the dataset folders of a filesystem
DatasetFolders(f) ==
  {p \in DOMAIN f : Len(p) > 0 /\ f[p].kind = "dir" /\ p[Len(p)].stem # <<>> /\ p[Len(p)].stem[1] = "raw"}

\* a finished archive of folder p, as p is in filesystem f, exists in filesystem g
ArchivedIn(g, f, p) ==
  \E ext \in {".tar.gz", ".tar.bz2", ".tar.xz"} :
    LET a == Append(SubSeq(p, 1, Len(p) - 1), [stem |-> p[Len(p)].stem, suffix |-> ext]) IN
    /\ a \in DOMAIN g
    /\ g[a] = [kind |-> "tar", files |-> f[p].files, root |-> p[Len(p)], complete |-> TRUE]

\* C4: compress_folder removes the source folder only once a finished archive
\* of it exists: a folder disappears only in the rmtree step of compress_folder
\* on that folder, with the finished archive there before and after; opening
\* and writing the archive, whether they return or raise, leave the folder as
\* it was.
C4_DeleteAfterArchive ==
  /\ [][ \A p \in DatasetFolders(fs) :
           p \notin DOMAIN fs' =>
             /\ pc = "rmtree"
             /\ p = folder
             /\ ArchivedIn(fs, fs, p)
             /\ ArchivedIn(fs', fs, p) ]_vars
  /\ [][ (pc \in {"compress", "add"} /\ folder \in DOMAIN fs)
           => (folder \in DOMAIN fs' /\ fs'[folder] = fs[folder]) ]_vars

\* compress_folder, called on a complete folder, raised while writing the
\* archive: the folder is whole and an unfinished archive is beside it
C4_Witness ==
  /\ mode = "compress"
  /\ pc = "idle"
  /\ result.kind = "raised"
  /\ result.exc.what = "tar.add"
  /\ log.folderAtCall.kind = "dir"
  /\ folder \in DOMAIN fs
  /\ fs[folder].files = DatasetFiles
  /\ archive_path \in DOMAIN fs
  /\ ~fs[archive_path].complete

\* C5: in a batch run the purge step runs once after every category, ended in
\* success or in an exception, and before anything of the next category: while
\* position idx is being processed, idx - 1 categories have ended and idx - 1
\* purges have run, and at the summary as many purges as categories.
C5_PurgeAfterEachCategory ==
  InRun =>
    /\ (pc = "finally" => Len(log.terminal) = log.purges + 1)
    /\ (pc # "finally" => Len(log.terminal) = log.purges)
    /\ (pc \in {"loop", "check", "save", "compress", "add", "rmtree", "finally"} => log.purges = idx - 1)
    /\ \A q \in log.fetches : q[1] <= log.purges + 1
    /\ (AtSummary => log.purges = Len(args.categories))

\* the second category is being fetched for after the first one failed, and a
\* purge has run in between
C5_Witness ==
  /\ InRun
  /\ pc = "save"
  /\ idx = 2
  /\ log.terminal = << <<1, "FAILED">> >>
  /\ log.purges = 1
  /\ <<1, "review">> \in log.fetches

RunStep == InRun /\ pc # "idle"

\* C6: in a validated run an output under base_save_path never disappears,
\* except a dataset folder in the archiver's rmtree step, whose archive is then
\* there; the purge step leaves every path outside the cache directory as it
\* was, and the archiver's rmtree leaves every path inside it as it was.  So a
\* pair that has an output keeps having one.
C6_OutputsAndCacheApart ==
  /\ [][ RunStep =>
           \A i \in DOMAIN args.categories : \A t \in DatasetTypes :
             PairHasOutput(fs, args.base_save_path, t, args.categories[i])
               => PairHasOutput(fs', args.base_save_path, t, args.categories[i]) ]_vars
  /\ [][ RunStep =>
           \A p \in DOMAIN fs :
             (IsPrefix(args.base_save_path, p) /\ p \notin DOMAIN fs')
               => (pc = "rmtree" /\ p = folder /\ ArchivedIn(fs', fs, p)) ]_vars
  /\ [][ (RunStep /\ pc = "finally") =>
           \A p \in DOMAIN fs : ~IsPrefix(CacheDir, p) => (p \in DOMAIN fs' /\ fs'[p] = fs[p]) ]_vars
  /\ [][ (RunStep /\ pc = "rmtree") =>
           \A p \in DOMAIN fs : IsPrefix(CacheDir, p) => (p \in DOMAIN fs' /\ fs'[p] = fs[p]) ]_vars

\* the purge has removed the cache the first category's fetch filled, and the
\* first category's archive is there
C6_Witness ==
  /\ InRun
  /\ pc = "loop"
  /\ idx = 2
  /\ <<1, "review">> \in log.fetches
  /\ CacheDir \notin DOMAIN fs
  /\ OutputArchive(args.base_save_path, "review", args.categories[1], ".tar.gz") \in DOMAIN fs
  /\ OutputFolder(args.base_save_path, "review", args.categories[1]) \notin DOMAIN fs

\* C7: a run with compress = True and format gz, on a base_save_path with no
\* output for the requested categories, in which nothing raised, ends with a
\* finished .tar.gz archive of the whole dataset for "review" and for "meta" of
\* every requested category, no dataset folder of theirs, and a summary of n
\* successful out of n.
C7_CompressedRun ==
  (AtSummary /\ args.compress /\ args.compression_format = "gz"
     /\ ~log.priorOutput /\ ~log.ioFailed) =>
    /\ \A i \in DOMAIN args.categories : \A t \in DatasetTypes :
         LET a == OutputArchive(args.base_save_path, t, args.categories[i], ".tar.gz") IN
         /\ a \in DOMAIN fs
         /\ fs[a] = [kind |-> "tar", files |-> DatasetFiles,
                     root |-> [stem |-> <<"raw", t, args.categories[i]>>, suffix |-> ""],
                     complete |-> TRUE]
         /\ OutputFolder(args.base_save_path, t, args.categories[i]) \notin DOMAIN fs
    /\ Len(successful) = Len(args.categories)
    /\ failed = <<>>
    /\ (pc = "idle" => result.ok = Len(args.categories) /\ result.total = Len(args.categories))

\* such a run of two different categories at level 9, returned
C7_Witness ==
  /\ AtSummary
  /\ pc = "idle"
  /\ args.compress
  /\ args.compression_format = "gz"
  /\ args.compression_level = 9
  /\ ~log.priorOutput
  /\ ~log.ioFailed
  /\ Len(args.categories) = 2
  /\ args.categories[1] # args.categories[2]
  /\ result.ok = 2

\* C8: for each of gz, bz2 and xz and every level in 1..9, compress_folder on
\* an existing folder returns the path <folder>.tar.<format>, where a finished
\* archive holds exactly the folder's files under the folder's name, unless the
\* operating system failed a file operation.
C8_EveryFormatCompresses ==
  (/\ mode = "compress"
   /\ pc = "idle"
   /\ log.folderAtCall.kind = "dir"
   /\ args.compression_format \in {"gz", "bz2", "xz"}
   /\ args.compression_level \in 1..9
   /\ result.exc.type # "OSError") =>
    LET a == OutputArchive(args.base_save_path, dtype, args.categories[1],
                           IF args.compression_format = "gz" THEN ".tar.gz"
                           ELSE IF args.compression_format = "bz2" THEN ".tar.bz2" ELSE ".tar.xz") IN
    /\ result.kind = "returned"
    /\ result.path = a
    /\ a \in DOMAIN fs
    /\ fs[a] = [kind |-> "tar", files |-> log.folderAtCall.files,
                root |-> [stem |-> <<"raw", dtype, args.categories[1]>>, suffix |-> ""],
                complete |-> TRUE]

\* what of C8 the code does: the same for gz alone
C8_GzCompresses ==
  args.compression_format = "gz" => C8_EveryFormatCompresses

\* compress_folder with gz at level 1 returned, the folder replaced by its archive
C8_GzWitness ==
  /\ mode = "compress"
  /\ pc = "idle"
  /\ result.kind = "returned"
  /\ args.compression_format = "gz"
  /\ args.compression_level = 1
  /\ log.folderAtCall.files = DatasetFiles
  /\ folder \notin DOMAIN fs

\* the calls of process_dataset so far are in input order, "review" before
\* "meta", none made twice
CallsInOrder ==
  /\ \A k \in DOMAIN log.calls : \A m \in DOMAIN log.calls :
       k < m => \/ log.calls[k][1] < log.calls[m][1]
                \/ (log.calls[k][1] = log.calls[m][1]
                    /\ log.calls[k][2] = "review" /\ log.calls[m][2] = "meta")
  /\ \A k \in DOMAIN log.calls :
       log.calls[k][2] = "meta" => (k > 1 /\ log.calls[k - 1] = <<log.calls[k][1], "review">>)
  /\ \A k \in DOMAIN log.calls :
       \A j \in 1..(log.calls[k][1] - 1) : Called(j, "review")

\* C9: a validated run reaches the summary; on the way process_dataset is
\* called in input order, "review" before "meta", no call twice; the positions
\* of the list end one by one in order, each once, as SUCCESS or as FAILED;
\* "successful" and "failed" hold exactly those; and at the summary their
\* lengths add up to the number of requested categories.
C9_RunReachesSummary ==
  /\ [](InRun =>
          /\ CallsInOrder
          /\ \A k \in DOMAIN log.terminal : log.terminal[k][1] = k
          /\ Len(log.terminal) <= Len(args.categories)
          /\ ListsMatchOutcomes
          /\ (AtSummary => /\ Len(log.terminal) = Len(args.categories)
                           /\ Len(successful) + Len(failed) = Len(args.categories)))
  /\ (InRun ~> AtSummary)

\* the same category twice in the list: the first position failed, the second
\* succeeded, and the name is in both lists
C9_Witness ==
  /\ AtSummary
  /\ pc = "idle"
  /\ Len(args.categories) = 2
  /\ args.categories[1] = args.categories[2]
  /\ log.terminal = << <<1, "FAILED">>, <<2, "SUCCESS">> >>
  /\ successful = <<args.categories[2]>>
  /\ Len(failed) = 1

\* C10: a folder whose processing raised after the folder had been created stays
\* where it is in every later state, of this run and of the runs after it; a
\* process_dataset call for its pair is a skip: no fetch, no compression, the
\* filesystem untouched, and the category goes on towards "successful".
C10_IncompleteFolderSkipped ==
  /\ [](\A p \in incomplete : p \in DOMAIN fs /\ fs[p].kind = "dir")
  /\ [][ \A p \in incomplete : p \in DOMAIN fs' /\ fs'[p] = fs[p] ]_vars
  /\ [][ (pc = "check" /\ folder \in incomplete) =>
           /\ fs' = fs
           /\ log'.fetches = log.fetches
           /\ log'.compressions = log.compressions
           /\ failed' = failed
           /\ (dtype = "review" => pc' = "check" /\ dtype' = "meta")
           /\ (dtype = "meta" => successful' = Append(successful, args.categories[idx])) ]_vars

\* the second run reports 1/1 successful for a category whose "review" folder
\* the first run left half written, with no archive
C10_Witness ==
  /\ AtSummary
  /\ pc = "idle"
  /\ ncalls = 2
  /\ args.compress
  /\ result.ok = 1
  /\ result.total = 1
  /\ failed = <<>>
  /\ LET p == OutputFolder(args.base_save_path, "review", args.categories[1]) IN
     /\ p \in incomplete
     /\ fs[p].files # DatasetFiles
     /\ \A ext \in {".tar.gz", ".tar.bz2", ".tar.xz"} :
          OutputArchive(args.base_save_path, "review", args.categories[1], ext) \notin DOMAIN fs

====
